---- MODULE Spec2Model ----
(***************************************************************************)
(* Payment-status reconciliation of the Mollie and SumUp payment providers *)
(* for Medusa: the lifecycle handlers of MolliePaymentProviderService,     *)
(* SumUpBase and SumUpClient, run against a model of the two gateways.     *)
(*                                                                         *)
(* Every handler is one action: it reads and writes the gateway as its     *)
(* code does, and leaves its result in `last` (the result before it in     *)
(* `prev`).  What the gateway answers (a network failure, the outcome of a *)
(* capture request, the SDK or the fetch path of the SumUp client) is      *)
(* chosen with \E.  The gateways change state on their own (the customer   *)
(* pays, a payment expires) in the gateway steps.                          *)
(***************************************************************************)
EXTENDS Integers, Sequences, FiniteSets, TLC

VARIABLES
    provider,   \* which provider class was constructed: "mollie" or "sumup"
    options,    \* the options object given to the constructor
    mollie,     \* Mollie's payments, by id
    sumup,      \* SumUp's checkouts, by id
    last,       \* result of the last handler call
    prev,       \* result of the call before it, when both are calls of
                \* one of the HistoryOps on the same payment (NoResult
                \* otherwise)
    calls,      \* the capturePayment calls in progress, by caller: the
                \* await each one stands at, its local status, its result
    captures    \* the capture requests Mollie has accepted, by payment

vars == <<provider, options, mollie, sumup, last, prev, calls, captures>>

----------------------------------------------------------------------------
(* Bounds and vocabularies *)

MaxPayments == 1                      \* payments / checkouts a gateway holds
PaymentIds == 1..MaxPayments          \* "pay_1", ...
NoId == 0                             \* input.data.id missing (undefined)
InputIds == PaymentIds \cup {NoId}

Undefined == "undefined"              \* JavaScript's undefined

\* the id of a payment or checkout as a string
IdString(id) == << "id_1", "id_2", "id_3", "id_4" >>[id]

\* PaymentSessionStatus of @medusajs/framework/utils
PaymentSessionStatus ==
    [ AUTHORIZED |-> "authorized", CAPTURED |-> "captured",
      PENDING |-> "pending", REQUIRES_MORE |-> "requires_more",
      ERROR |-> "error", CANCELED |-> "canceled" ]

HostPaymentStatus ==
    { PaymentSessionStatus.PENDING, PaymentSessionStatus.REQUIRES_MORE,
      PaymentSessionStatus.AUTHORIZED, PaymentSessionStatus.CAPTURED,
      PaymentSessionStatus.CANCELED, PaymentSessionStatus.ERROR }

\* PaymentStatus of @mollie/api-client, and one status outside it
PaymentStatus ==
    { "open", "canceled", "pending", "authorized", "expired", "failed", "paid" }
UnknownMollieStatus == "settling"
MollieGatewayStatuses == PaymentStatus \cup {UnknownMollieStatus}

\* the providers: "mollie" is MolliePaymentProviderService; "sumup" is
\* SumUpBase (its subclasses) together with the SumUpClient provider of
\* sumup/core/sumup-client.ts, which works on the same checkouts
Providers == { "mollie", "sumup" }

\* the autoCapture option: true, false, or not given
AutoCaptureOptions == { "true", "false", Undefined }

\* what the host passes to initiatePayment: amount in minor units and the
\* context's idempotency_key (which may be missing)
InitiateInputs ==
    { [amount |-> 1050, currency_code |-> "eur", idempotency_key |-> "abc"],
      [amount |-> 1999, currency_code |-> "eur", idempotency_key |-> Undefined] }

\* payload.data of a Mollie webhook delivery: the id, and body fields the
\* sender controls
MollieWebhookPayloads ==
    [ id : InputIds, status : {"paid"}, amount : {1050} ]
    \cup [ id : InputIds, status : {"failed"}, amount : {1} ]

\* data.resource of a webhook payload that has none
NoResource == [missing |-> TRUE]

\* the status type of SumUpCheckoutResponse
SumUpStatuses == { "PENDING", "FAILED", "PAID", "EXPIRED" }

\* event types of SumUp webhooks (the ten the reconciler names and one it
\* does not)
SumUpEventTypes ==
    { "transaction_successful", "payment_captured", "checkout_paid",
      "transaction_failed", "payment_failed", "checkout_failed",
      "transaction_cancelled", "payment_cancelled", "checkout_cancelled",
      "checkout_expired", "checkout_created" }

\* payload.data of a SumUp webhook delivery: every event type for one
\* resource, every resource for two event types; resource may be missing
SumUpWebhookPayloads ==
    [ event_type : SumUpEventTypes,
      resource : [ id : {1}, checkout_reference : {"medusa_ref"},
                   amount : {1050} ] ]
    \cup [ event_type : {"checkout_paid", "checkout_failed"},
           resource : [ id : InputIds,
                        checkout_reference : {"medusa_ref", Undefined},
                        amount : {0, 1050} ] ]
    \cup [ event_type : {"checkout_paid"}, resource : {NoResource} ]

\* messages of the errors the gateways raise
GatewayMessages == { "Unprocessable Entity" }
NetworkMessage == "Network error"
NotFoundMessage == "Not Found"

----------------------------------------------------------------------------
(* Values *)

Truthy(v) == v = "true"

\* Number.prototype.toFixed(2) of an amount of n minor units: the whole
\* part and exactly two decimal digits
ToFixed2(n) == << n \div 100, (n \div 10) % 10, n % 10 >>

\* JSON.stringify of a number of n minor units: the whole part and the
\* decimal digits without trailing zeros (10.5, not 10.50)
JsonNumber(n) ==
    IF n % 100 = 0 THEN << n \div 100 >>
    ELSE IF n % 10 = 0 THEN << n \div 100, (n \div 10) % 10 >>
    ELSE << n \div 100, (n \div 10) % 10, n % 10 >>

ToUpperCase(c) == IF c = "eur" THEN "EUR" ELSE c

NoAmount == [value |-> <<>>, currency |-> ""]

NoPayment ==
    [ exists |-> FALSE, status |-> "", amount |-> NoAmount,
      captureMode |-> "", metadata |-> [idempotency_key |-> Undefined] ]

NoCheckout ==
    [ exists |-> FALSE, status |-> "", amount |-> 0, currency |-> "",
      checkout_reference |-> "", merchant_code |-> "", transactions |-> <<>> ]

NoErr == [type |-> "", msg |-> <<>>]
NoData == [none |-> TRUE]

\* a request this layer sent to a gateway
Req(kind, id) == [kind |-> kind, id |-> id]

NoResult ==
    [ op |-> "none", id |-> NoId, ok |-> TRUE, status |-> "", data |-> NoData,
      err |-> NoErr, sent |-> <<>>, input |-> NoData, action |-> "",
      seen |-> <<>> ]

Result(op, id, ok, status, data, err, sent, input) ==
    [ op |-> op, id |-> id, ok |-> ok, status |-> status, data |-> data,
      err |-> err, sent |-> sent, input |-> input, action |-> "",
      seen |-> <<>> ]

\* the result of getWebhookActionAndData: {action, data}
ActionResult(op, id, action, data, sent, input) ==
    [ op |-> op, id |-> id, ok |-> TRUE, status |-> "", data |-> data,
      err |-> NoErr, sent |-> sent, input |-> input, action |-> action,
      seen |-> <<>> ]

\* r, with the gateway statuses that the reads of the call returned, in
\* order (kept for the properties; the handlers do not read it)
Saw(r, statuses) == [r EXCEPT !.seen = statuses]

\* obj.name of JavaScript: undefined when the object has no such field
Field(obj, name) == IF name \in DOMAIN obj THEN obj[name] ELSE Undefined

\* new BigNumber(v) of @medusajs/framework/utils, of a number and of a
\* raw value {value, ...}
BigNumber(n) == [numeric |-> n]
BigNumberOfRaw(raw) == [numeric |-> raw.value]

\* a handler that throws: no status, no data
Throw(op, id, err, sent, input) ==
    Result(op, id, FALSE, "", NoData, err, sent, input)

\* JavaScript's object spread {...base, ...over}: the fields of over win
Spread(base, over) ==
    [ k \in (DOMAIN base) \cup (DOMAIN over) |->
        IF k \in DOMAIN over THEN over[k] ELSE base[k] ]

MedusaError(type, msg) == [type |-> type, msg |-> msg]

\* the callers whose capturePayment calls run concurrently, and a caller
\* that has no call in progress
Callers == { 1, 2 }
NoCall == [pc |-> "idle", status |-> "", sent |-> <<>>, result |-> NoResult]

\* the operations whose calls in a row are compared
HistoryOps == { "capturePayment" }

\* the handler call ends with result r
Returns(r) ==
    /\ last' = r
    /\ prev' = IF r.op \in HistoryOps /\ last.op = r.op /\ last.id = r.id
               THEN last ELSE NoResult

----------------------------------------------------------------------------
(* Mollie gateway *)

\* client.payments.get(id): the payment, or an error (network, not found)
MollieGetOk(id, net) == net /\ id \in PaymentIds /\ mollie[id].exists
MollieGetErr(id, net) ==
    IF ~net THEN NetworkMessage ELSE NotFoundMessage

\* the status a read returns, as a sequence: empty when the read fails
MollieSeen(id, net) ==
    IF MollieGetOk(id, net) THEN <<mollie[id].status>> ELSE <<>>

\* the payment as the API returns it
MolliePaymentData(id) ==
    [ id |-> id, status |-> mollie[id].status, amount |-> mollie[id].amount,
      captureMode |-> mollie[id].captureMode, metadata |-> mollie[id].metadata ]

\* statuses a payment can move to on the gateway's side
MollieNextStatuses(s) ==
    CASE s = "open" -> { "pending", "authorized", "paid", "failed",
                         "canceled", "expired", UnknownMollieStatus }
      [] s = "pending" -> { "authorized", "paid", "failed", "expired" }
      [] s = "authorized" -> { "paid", "canceled", "expired" }
      [] OTHER -> {}

MollieGatewayStep ==
    /\ provider = "mollie"
    /\ \E id \in PaymentIds :
         /\ mollie[id].exists
         /\ \E s \in MollieNextStatuses(mollie[id].status) :
              mollie' = [mollie EXCEPT ![id].status = s]
    /\ UNCHANGED <<calls, captures, provider, options, sumup, last, prev>>

----------------------------------------------------------------------------
(* MolliePaymentProviderService *)

\* mutant: the row for expired gives CANCELED
MollieStatusMap_ExpiredCanceled(status) ==
    CASE status = "open" -> PaymentSessionStatus.REQUIRES_MORE
      [] status = "canceled" -> PaymentSessionStatus.CANCELED
      [] status = "pending" -> PaymentSessionStatus.PENDING
      [] status = "authorized" -> PaymentSessionStatus.AUTHORIZED
      [] status = "expired" -> PaymentSessionStatus.CANCELED
      [] status = "failed" -> PaymentSessionStatus.ERROR
      [] status = "paid" -> PaymentSessionStatus.CAPTURED
      [] OTHER -> Undefined

\* statusMap[status] of getPaymentStatus: a status that is no key of the
\* map gives undefined
MollieStatusMap(status) ==
    CASE status = "open" -> PaymentSessionStatus.REQUIRES_MORE
      [] status = "canceled" -> PaymentSessionStatus.CANCELED
      [] status = "pending" -> PaymentSessionStatus.PENDING
      [] status = "authorized" -> PaymentSessionStatus.AUTHORIZED
      [] status = "expired" -> PaymentSessionStatus.ERROR
      [] status = "failed" -> PaymentSessionStatus.ERROR
      [] status = "paid" -> PaymentSessionStatus.CAPTURED
      [] OTHER -> Undefined

\* getPaymentStatus({data: {id}}) as a value: ok with the mapped status, or
\* the gateway's error rethrown
MollieStatusOf(id, net) ==
    IF MollieGetOk(id, net)
    THEN [ok |-> TRUE, status |-> MollieStatusMap(mollie[id].status),
          err |-> NoErr]
    ELSE [ok |-> FALSE, status |-> "",
          err |-> MedusaError("gateway", <<MollieGetErr(id, net)>>)]

Mollie_getPaymentStatus ==
    /\ provider = "mollie"
    /\ \E id \in InputIds, net \in BOOLEAN :
         LET r == MollieStatusOf(id, net) IN
         Returns(Saw(Result("getPaymentStatus", id, r.ok, r.status, NoData,
                            r.err, <<Req("payments.get", id)>>, [id |-> id]),
                     MollieSeen(id, net)))
    /\ UNCHANGED <<calls, captures, provider, options, mollie, sumup>>

\* retrievePayment({data: {id}}): the payment, or the gateway's error
MollieRetrieve(id, net) ==
    IF MollieGetOk(id, net)
    THEN [ok |-> TRUE, data |-> MolliePaymentData(id), err |-> NoErr]
    ELSE [ok |-> FALSE, data |-> NoData,
          err |-> MedusaError("gateway", <<MollieGetErr(id, net)>>)]

\* mutant: the two capture modes swapped
CaptureMode_Swapped(autoCapture) ==
    IF Truthy(autoCapture) THEN "manual" ELSE "automatic"

\* captureMode of createParams: a truthiness test of options.autoCapture
CaptureMode(autoCapture) ==
    IF Truthy(autoCapture) THEN "automatic" ELSE "manual"

\* createParams of initiatePayment
CreateParams(input) ==
    [ amount |-> [ value |-> ToFixed2(input.amount),
                   currency |-> ToUpperCase(input.currency_code) ],
      captureMode |-> CaptureMode(options.autoCapture),
      metadata |-> [idempotency_key |-> input.idempotency_key] ]

\* the id the gateway gives the next payment it creates
FreeIds(gw) == { id \in PaymentIds : ~gw[id].exists }
NextId(gw) == CHOOSE id \in FreeIds(gw) : \A j \in FreeIds(gw) : id <= j

\* client.payments.create(createParams), accepted: a new open payment
MollieCreated(params) ==
    [ exists |-> TRUE, status |-> "open", amount |-> params.amount,
      captureMode |-> params.captureMode, metadata |-> params.metadata ]

\* mutant: a create request that failed is answered with a result
MollieInitiate_SwallowsFailure(input, accepted, message) ==
    LET params == CreateParams(input)
        sent == << [kind |-> "payments.create", id |-> NoId,
                    params |-> params] >>
    IN  IF accepted
        THEN [ result |-> Result("initiatePayment", NextId(mollie), TRUE, "",
                              Spread(MollieCreated(params),
                                     [id |-> NextId(mollie)]),
                              NoErr, sent, input),
               gateway |-> [mollie EXCEPT
                              ![NextId(mollie)] = MollieCreated(params)] ]
        ELSE [ result |-> Result("initiatePayment", NoId, TRUE, "", NoData,
                              NoErr, sent, input),
               gateway |-> mollie ]

\* initiatePayment: the result and the gateway after it; accepted tells
\* whether the gateway accepts the create request
MollieInitiate(input, accepted, message) ==
    LET params == CreateParams(input)
        id == NextId(mollie)
        sent == << [kind |-> "payments.create", id |-> NoId,
                    params |-> params] >>
    IN  IF accepted
        THEN [ result |-> Result("initiatePayment", id, TRUE, "",
                              Spread(MollieCreated(params), [id |-> id]),
                              NoErr, sent, input),
               gateway |-> [mollie EXCEPT ![id] = MollieCreated(params)] ]
        ELSE [ result |-> Throw("initiatePayment", NoId,
                              MedusaError("invalid_data", <<message>>),
                              sent, input),
               gateway |-> mollie ]

Mollie_initiatePayment ==
    /\ provider = "mollie"
    /\ FreeIds(mollie) # {}
    /\ \E input \in InitiateInputs, accepted \in BOOLEAN,
          message \in GatewayMessages :
         LET c == MollieInitiate(input, accepted, message) IN
         /\ mollie' = c.gateway
         /\ Returns(c.result)
    /\ UNCHANGED <<calls, captures, provider, options, sumup>>

\* the statuses authorizePayment accepts
IsAuthorizedStatus(status) ==
    status \in {"captured", "authorized", "paid"}

MollieAuthorize(id, net) ==
    LET input == [id |-> id]
        r == MollieStatusOf(id, net)
        sent == <<Req("payments.get", id)>>
    IN  IF id = NoId
        THEN Throw("authorizePayment", id,
                   MedusaError("invalid_data", <<"Payment ID is required">>),
                   <<>>, input)
        ELSE IF ~r.ok
        THEN Throw("authorizePayment", id, r.err, sent, input)
        ELSE IF ~IsAuthorizedStatus(r.status)
        THEN Throw("authorizePayment", id,
                   MedusaError("invalid_data",
                       <<"Payment is not authorized: current status is ",
                         r.status>>),
                   sent, input)
        ELSE Result("authorizePayment", id, TRUE, r.status, input, NoErr,
                    sent, input)

Mollie_authorizePayment ==
    /\ provider = "mollie"
    /\ \E id \in InputIds, net \in BOOLEAN :
         Returns(Saw(MollieAuthorize(id, net),
                     IF id = NoId THEN <<>> ELSE MollieSeen(id, net)))
    /\ UNCHANGED <<calls, captures, provider, options, mollie, sumup>>

\* mutant: the option is not consulted
ShouldCapture_IgnoresOption(status, autoCapture) ==
    status = "authorized"

\* mutant: the status is not consulted
ShouldCapture_IgnoresStatus(status, autoCapture) ==
    ~Truthy(autoCapture)

\* the condition under which capturePayment sends a capture request
ShouldCapture(status, autoCapture) ==
    status = "authorized" /\ ~Truthy(autoCapture)

\* mutant: a payment still authorized passes for captured
IsCaptured_AcceptsAuthorized(status) ==
    status \in {"captured", "authorized"}

\* the condition under which capturePayment reports the payment captured
IsCaptured(status) == status = "captured"

\* what the gateway does with client.paymentCaptures.create: it rejects
\* the request, or accepts it and has settled it by the time of the next
\* read ("settled"), or accepts it and has not ("accepted")
CaptureOutcomes == { "settled", "accepted", "rejected" }

MollieAfterCapture(id, outcome) ==
    IF outcome = "settled"
    THEN [mollie EXCEPT ![id].status = "paid"]
    ELSE mollie

\* capturePayment: the result and the gateway after it.  failAt is the
\* gateway read (1st, 2nd, 3rd of this call) that fails, 0 for none.
MollieCapture(id, failAt, outcome, message) ==
    LET input == [id |-> id]
        get == Req("payments.get", id)
        cap == Req("paymentCaptures.create", id)
        s1 == MollieStatusOf(id, failAt # 1)
        capture == s1.ok /\ ShouldCapture(s1.status, options.autoCapture)
        gw2 == IF capture THEN MollieAfterCapture(id, outcome) ELSE mollie
        \* the second status read sees the gateway after the capture
        s2 == IF failAt # 2
              THEN [ok |-> TRUE, status |-> MollieStatusMap(gw2[id].status),
                    err |-> NoErr]
              ELSE [ok |-> FALSE, status |-> "",
                    err |-> MedusaError("gateway", <<NetworkMessage>>)]
        status == IF capture THEN s2.status ELSE s1.status
        sentToStatus == IF capture THEN <<get, cap, get>> ELSE <<get>>
        reads == IF capture THEN 3 ELSE 2
        okLast == failAt # reads
        seen1 == <<mollie[id].status>>
        seen2 == IF capture THEN <<mollie[id].status, gw2[id].status>>
                 ELSE seen1
        out(r, seen, gw) == [result |-> Saw(r, seen), gateway |-> gw]
    IN  IF id = NoId
        THEN out(Throw("capturePayment", id,
                   MedusaError("invalid_data", <<"Payment ID is required">>),
                   <<>>, input), <<>>, mollie)
        ELSE IF ~s1.ok
        THEN out(Throw("capturePayment", id, s1.err, <<get>>, input), <<>>,
                 mollie)
        ELSE IF capture /\ outcome = "rejected"
        THEN out(Throw("capturePayment", id,
                       MedusaError("gateway", <<message>>), <<get, cap>>,
                       input), seen1, mollie)
        ELSE IF capture /\ ~s2.ok
        THEN out(Throw("capturePayment", id, s2.err, sentToStatus, input),
                 seen1, gw2)
        ELSE IF ~IsCaptured(status)
        THEN out(Throw("capturePayment", id,
                       MedusaError("invalid_data",
                           <<"Payment is not captured: current status is ",
                             status>>),
                       sentToStatus, input), seen2, gw2)
        ELSE IF ~okLast
        THEN out(Throw("capturePayment", id,
                       MedusaError("gateway", <<NetworkMessage>>),
                       Append(sentToStatus, get), input), seen2, gw2)
        ELSE out(Result("capturePayment", id, TRUE, "",
                        [ id |-> id, status |-> gw2[id].status,
                          amount |-> gw2[id].amount,
                          captureMode |-> gw2[id].captureMode,
                          metadata |-> gw2[id].metadata ],
                        NoErr, Append(sentToStatus, get), input),
                 Append(seen2, gw2[id].status), gw2)

Mollie_capturePayment ==
    /\ provider = "mollie"
    /\ \E id \in InputIds, failAt \in 0..3, outcome \in CaptureOutcomes,
          message \in GatewayMessages :
         LET c == MollieCapture(id, failAt, outcome, message) IN
         \* no capture request is made without an id or after a failed
         \* first read
         /\ (id = NoId \/ failAt = 1) => outcome = "settled"
         /\ id = NoId => failAt = 0
         /\ mollie' = c.gateway
         /\ Returns(c.result)
    /\ UNCHANGED <<calls, captures, provider, options, sumup>>

\* mutant: the case for expired is missing
WebhookAction_ExpiredUnhandled(status) ==
    CASE status = "authorized" -> "authorized"
      [] status = "paid" -> "captured"
      [] status = "failed" -> "failed"
      [] status = "canceled" -> "canceled"
      [] status = "pending" -> "pending"
      [] status = "open" -> "requires_more"
      [] OTHER -> "not_supported"

\* the switch of getWebhookActionAndData on the fetched status
WebhookAction(status) ==
    CASE status = "authorized" -> "authorized"
      [] status = "paid" -> "captured"
      [] status \in {"expired", "failed"} -> "failed"
      [] status = "canceled" -> "canceled"
      [] status = "pending" -> "pending"
      [] status = "open" -> "requires_more"
      [] OTHER -> "not_supported"

\* baseData = {amount, session_id, ...payment}
WebhookBaseData(payment) ==
    Spread([ amount |-> BigNumberOfRaw(payment.amount),
             session_id |-> Field(payment.metadata, "idempotency_key") ],
           payment)

\* data of the catch block: {session_id, amount, ...payment}
WebhookRecoveryData(payment) ==
    Spread([ session_id |-> Field(payment.metadata, "session_id"),
             amount |-> BigNumberOfRaw(payment.amount) ],
           payment)

\* mutant: the catch block rethrows without a second read
MollieWebhook_NoRecovery(payload, net1, net2) ==
    LET id == payload.id
        get == Req("payments.get", id)
        r1 == MollieRetrieve(id, net1)
    IN  IF r1.ok
        THEN Saw(ActionResult("getWebhookActionAndData", id,
                              WebhookAction(r1.data.status),
                              WebhookBaseData(r1.data), <<get>>, payload),
                 <<r1.data.status>>)
        ELSE Throw("getWebhookActionAndData", id,
                   MedusaError("not_found", r1.err.msg), <<get>>, payload)

\* getWebhookActionAndData(payload): net1 and net2 tell whether the read
\* of the try block and the read of the catch block reach the gateway
MollieWebhook(payload, net1, net2) ==
    LET id == payload.id
        get == Req("payments.get", id)
        r1 == MollieRetrieve(id, net1)
        r2 == MollieRetrieve(id, net2)
    IN  IF r1.ok
        THEN Saw(ActionResult("getWebhookActionAndData", id,
                              WebhookAction(r1.data.status),
                              WebhookBaseData(r1.data), <<get>>, payload),
                 <<r1.data.status>>)
        ELSE IF r2.ok
        THEN Saw(ActionResult("getWebhookActionAndData", id, "failed",
                              WebhookRecoveryData(r2.data), <<get, get>>,
                              payload),
                 <<r2.data.status>>)
        ELSE Throw("getWebhookActionAndData", id,
                   MedusaError("not_found", r1.err.msg), <<get, get>>,
                   payload)

Mollie_getWebhookActionAndData ==
    /\ provider = "mollie"
    /\ \E payload \in MollieWebhookPayloads, net1 \in BOOLEAN,
          net2 \in BOOLEAN :
         /\ net1 => net2            \* the second read is made only after
                                    \* the first one failed
         /\ Returns(MollieWebhook(payload, net1, net2))
    /\ UNCHANGED <<calls, captures, provider, options, mollie, sumup>>

Mollie_retrievePayment ==
    /\ provider = "mollie"
    /\ \E id \in InputIds, net \in BOOLEAN :
         LET r == MollieRetrieve(id, net) IN
         Returns(Saw(Result("retrievePayment", id, r.ok, "", r.data, r.err,
                            <<Req("payments.get", id)>>, [id |-> id]),
                     MollieSeen(id, net)))
    /\ UNCHANGED <<calls, captures, provider, options, mollie, sumup>>

\* parseFloat of a decimal string with two decimals, in minor units
ParseFloat(v) == v[1] * 100 + v[2] * 10 + v[3]

\* the statuses in which Mollie accepts a refund, and a cancellation
MollieRefundable(status) == status = "paid"
MollieCancelable(status) == status \in {"open", "pending", "authorized"}

\* input.data of refundPayment: the id, and the amount {value, currency}
\* of the stored payment data when hasAmount
MollieRefundInput(id, hasAmount) ==
    IF hasAmount /\ id \in PaymentIds
    THEN [id |-> id, amount |-> mollie[id].amount]
    ELSE [id |-> id]

\* refundPayment: the refund is requested for input.data.amount.value in
\* the currency of the fetched payment, whatever the payment's status
MollieRefund(id, hasAmount, net, accepted, message) ==
    LET input == MollieRefundInput(id, hasAmount)
        get == Req("payments.get", id)
        payment == MollieRetrieve(id, net)
        amount == [ value |-> ToFixed2(ParseFloat(input.amount.value)),
                    currency |-> ToUpperCase(payment.data.amount.currency) ]
        refund == [kind |-> "paymentRefunds.create", id |-> id,
                   params |-> amount]
    IN  IF id = NoId
        THEN Throw("refundPayment", id,
                   MedusaError("invalid_data", <<"Payment ID is required">>),
                   <<>>, input)
        ELSE IF ~payment.ok
        THEN Throw("refundPayment", id, payment.err, <<get>>, input)
        ELSE IF "amount" \notin DOMAIN input
        THEN Saw(Throw("refundPayment", id,
                       MedusaError("TypeError",
                           <<"Cannot read properties of undefined">>),
                       <<get>>, input),
                 <<payment.data.status>>)
        ELSE IF payment.data.amount.currency = ""
        THEN Saw(Throw("refundPayment", id,
                       MedusaError("invalid_data",
                           <<"Currency information is missing from payment data">>),
                       <<get>>, input),
                 <<payment.data.status>>)
        ELSE IF ~(accepted /\ MollieRefundable(payment.data.status))
        THEN Saw(Throw("refundPayment", id,
                       MedusaError("gateway", <<message>>),
                       <<get, refund>>, input),
                 <<payment.data.status>>)
        ELSE Saw(Result("refundPayment", id, TRUE, "",
                        [ resource |-> "refund", paymentId |-> id,
                          amount |-> amount, status |-> "queued" ],
                        NoErr, <<get, refund>>, input),
                 <<payment.data.status>>)

Mollie_refundPayment ==
    /\ provider = "mollie"
    /\ \E id \in InputIds, hasAmount \in BOOLEAN, net \in BOOLEAN,
          accepted \in BOOLEAN, message \in GatewayMessages :
         \* no refund request is made without an id, after a failed read
         \* or without an amount
         /\ (id = NoId \/ ~net \/ ~hasAmount) => accepted
         /\ (id = NoId \/ ~net) => hasAmount
         /\ id = NoId => net
         /\ Returns(MollieRefund(id, hasAmount, net, accepted, message))
    /\ UNCHANGED <<calls, captures, provider, options, mollie, sumup>>

\* the check that makes cancelPayment return without a cancel request
IsAlreadyExpired(status) == status = "expired"

\* what the .catch of client.payments.cancel(id) resolves to: the fetched
\* payment inside an object {data}
CancelFallback(payment) == [data |-> payment]

\* cancelPayment (op names the handler that runs it): the result and the
\* gateway after it.  The gateway cancels the payment when it accepts the
\* request, which it does only for a cancelable payment.
MollieCancel(op, id, net, accepted) ==
    LET input == [id |-> id]
        get == Req("payments.get", id)
        cancel == Req("payments.cancel", id)
        payment == MollieRetrieve(id, net)
        cancelled == accepted /\ MollieCancelable(payment.data.status)
        gw2 == IF cancelled THEN [mollie EXCEPT ![id].status = "canceled"]
               ELSE mollie
        out(r, gw) == [result |-> r, gateway |-> gw]
    IN  IF ~payment.ok
        THEN out(Throw(op, id, payment.err, <<get>>, input), mollie)
        ELSE IF IsAlreadyExpired(payment.data.status)
        THEN out(Saw(Result(op, id, TRUE, "", [id |-> id], NoErr, <<get>>,
                            input),
                     <<payment.data.status>>), mollie)
        ELSE out(Saw(Result(op, id, TRUE, "",
                            IF cancelled
                            THEN [payment.data EXCEPT !.status = "canceled"]
                            ELSE CancelFallback(payment.data),
                            NoErr, <<get, cancel>>, input),
                     <<payment.data.status>>), gw2)

Mollie_cancelPayment ==
    /\ provider = "mollie"
    /\ \E id \in InputIds, net \in BOOLEAN, accepted \in BOOLEAN :
         LET c == MollieCancel("cancelPayment", id, net, accepted) IN
         /\ ~net => accepted       \* no cancel request after a failed read
         /\ mollie' = c.gateway
         /\ Returns(c.result)
    /\ UNCHANGED <<calls, captures, provider, options, sumup>>

\* deletePayment: return this.cancelPayment(input)
MollieDelete(id, net, accepted) ==
    MollieCancel("deletePayment", id, net, accepted)

Mollie_deletePayment ==
    /\ provider = "mollie"
    /\ \E id \in InputIds, net \in BOOLEAN, accepted \in BOOLEAN :
         LET c == MollieDelete(id, net, accepted) IN
         /\ ~net => accepted       \* no cancel request after a failed read
         /\ mollie' = c.gateway
         /\ Returns(c.result)
    /\ UNCHANGED <<calls, captures, provider, options, sumup>>

----------------------------------------------------------------------------
(* SumUp gateway *)

\* the transactions the gateway lists for a checkout of a given status
SumUpTransactions(status) ==
    CASE status = "PAID" -> << [id |-> "tx_1", status |-> "SUCCESSFUL"] >>
      [] status = "FAILED" -> << [id |-> "tx_1", status |-> "FAILED"] >>
      [] OTHER -> <<>>

SumUpGatewayStep ==
    /\ provider = "sumup"
    /\ \E id \in PaymentIds, s \in {"PAID", "FAILED", "EXPIRED"} :
         /\ sumup[id].exists
         /\ sumup[id].status = "PENDING"
         /\ sumup' = [sumup EXCEPT ![id].status = s,
                                   ![id].transactions = SumUpTransactions(s)]
    /\ UNCHANGED <<calls, captures, provider, options, mollie, last, prev>>

\* the ways a SumUpClient call can go: the SDK answers, or the SDK call
\* fails and the fetch fallback answers, or both fail
ClientPaths == { "sdk", "fetch", "fail" }

\* handleApiError(error) for an Error: the message is built from
\* error.name before error.message
HandleApiError(name, message) ==
    MedusaError("payment_authorization_error",
                <<"SumUp API Error: ", IF name # "" THEN name ELSE message>>)

\* SumUpClient.getCheckout(checkoutId): the SDK answer is mapped to a
\* response with transactions: [], the fetch answer is the API's JSON
GetCheckout(id, path) ==
    LET found == id \in PaymentIds /\ sumup[id].exists
        sdk == Req("checkouts.get", id)
        fetch == Req("GET /v0.1/checkouts", id)
    IN  IF found /\ path = "sdk"
        THEN [ ok |-> TRUE, sent |-> <<sdk>>, err |-> NoErr,
               checkout |-> [ id |-> id,
                   checkout_reference |-> sumup[id].checkout_reference,
                   amount |-> sumup[id].amount,
                   currency |-> sumup[id].currency,
                   status |-> sumup[id].status,
                   merchant_code |-> sumup[id].merchant_code,
                   transactions |-> <<>> ] ]
        ELSE IF found /\ path = "fetch"
        THEN [ ok |-> TRUE, sent |-> <<sdk, fetch>>, err |-> NoErr,
               checkout |-> [ id |-> id,
                   checkout_reference |-> sumup[id].checkout_reference,
                   amount |-> sumup[id].amount,
                   currency |-> sumup[id].currency,
                   status |-> sumup[id].status,
                   merchant_code |-> sumup[id].merchant_code,
                   transactions |-> sumup[id].transactions ] ]
        ELSE [ ok |-> FALSE, sent |-> <<sdk, fetch>>,
               err |-> HandleApiError("Error",
                          IF found THEN NetworkMessage ELSE NotFoundMessage),
               checkout |-> NoData ]

----------------------------------------------------------------------------
(* SumUpBase *)

\* the status a getCheckout call returns, as a sequence: empty when the
\* handler made no call or the call failed
SumUpSeen(id, path) ==
    IF id # NoId /\ GetCheckout(id, path).ok
    THEN <<GetCheckout(id, path).checkout.status>> ELSE <<>>

\* statusMap[checkout.status] || PaymentSessionStatus.PENDING
SumUpStatusMap(status) ==
    CASE status = "PENDING" -> PaymentSessionStatus.PENDING
      [] status = "FAILED" -> PaymentSessionStatus.ERROR
      [] status = "PAID" -> PaymentSessionStatus.AUTHORIZED
      [] OTHER -> PaymentSessionStatus.PENDING

SumUpGetPaymentStatus(id, path) ==
    LET input == [id |-> id]
        c == GetCheckout(id, path)
    IN  IF id = NoId
        THEN Result("getPaymentStatus", id, TRUE, PaymentSessionStatus.ERROR,
                    NoData, NoErr, <<>>, input)
        ELSE IF ~c.ok
        THEN Result("getPaymentStatus", id, TRUE, PaymentSessionStatus.ERROR,
                    NoData, NoErr, c.sent, input)
        ELSE Result("getPaymentStatus", id, TRUE,
                    SumUpStatusMap(c.checkout.status),
                    Spread(input, [ status |-> c.checkout.status,
                                    transactions |-> c.checkout.transactions ]),
                    NoErr, c.sent, input)

SumUp_getPaymentStatus ==
    /\ provider = "sumup"
    /\ \E id \in InputIds, path \in ClientPaths :
         Returns(Saw(SumUpGetPaymentStatus(id, path), SumUpSeen(id, path)))
    /\ UNCHANGED <<calls, captures, provider, options, mollie, sumup>>

\* the status authorizePayment returns for a checkout status
SumUpAuthorizeStatus(status) ==
    CASE status = "PAID" -> PaymentSessionStatus.AUTHORIZED
      [] status = "FAILED" -> PaymentSessionStatus.ERROR
      [] OTHER -> PaymentSessionStatus.PENDING

SumUpAuthorize(id, path) ==
    LET input == [id |-> id]
        c == GetCheckout(id, path)
    IN  IF id = NoId
        THEN Throw("authorizePayment", id,
                   MedusaError("invalid_data",
                       <<"Checkout ID is required for authorization">>),
                   <<>>, input)
        ELSE IF ~c.ok
        THEN Throw("authorizePayment", id, c.err, c.sent, input)
        ELSE Result("authorizePayment", id, TRUE,
                    SumUpAuthorizeStatus(c.checkout.status),
                    IF c.checkout.status = "PAID"
                    THEN Spread(input, [ status |-> c.checkout.status,
                             transactions |-> c.checkout.transactions ])
                    ELSE Spread(input, [status |-> c.checkout.status]),
                    NoErr, c.sent, input)

SumUp_authorizePayment ==
    /\ provider = "sumup"
    /\ \E id \in InputIds, path \in ClientPaths :
         Returns(Saw(SumUpAuthorize(id, path), SumUpSeen(id, path)))
    /\ UNCHANGED <<calls, captures, provider, options, mollie, sumup>>

SumUpCapture(id, path) ==
    LET input == [id |-> id]
        c == GetCheckout(id, path)
    IN  IF id = NoId
        THEN Throw("capturePayment", id,
                   MedusaError("invalid_data",
                       <<"Checkout ID is required for capture">>),
                   <<>>, input)
        ELSE IF ~c.ok
        THEN Throw("capturePayment", id, c.err, c.sent, input)
        ELSE IF c.checkout.status # "PAID"
        THEN Throw("capturePayment", id,
                   MedusaError("payment_capture_error",
                       <<"Cannot capture payment with status: ",
                         c.checkout.status>>),
                   c.sent, input)
        ELSE Result("capturePayment", id, TRUE, "",
                    Spread(input, [ status |-> c.checkout.status,
                                    transactions |-> c.checkout.transactions ]),
                    NoErr, c.sent, input)

SumUp_capturePayment ==
    /\ provider = "sumup"
    /\ \E id \in InputIds, path \in ClientPaths :
         Returns(Saw(SumUpCapture(id, path), SumUpSeen(id, path)))
    /\ UNCHANGED <<calls, captures, provider, options, mollie, sumup>>

\* mutant: checkout_expired is answered as a failure
SumUpEventAction_ExpiredFailed(event_type) ==
    CASE event_type \in { "transaction_successful", "payment_captured",
                          "checkout_paid" } -> "captured"
      [] event_type \in { "transaction_failed", "payment_failed",
                          "checkout_failed", "checkout_expired" } -> "failed"
      [] event_type \in { "transaction_cancelled", "payment_cancelled",
                          "checkout_cancelled" } -> "canceled"
      [] OTHER -> "not_supported"

\* the switch of getWebhookActionAndData on data.event_type
\* (PaymentActions.SUCCESSFUL is "captured")
SumUpEventAction(event_type) ==
    CASE event_type \in { "transaction_successful", "payment_captured",
                          "checkout_paid" } -> "captured"
      [] event_type \in { "transaction_failed", "payment_failed",
                          "checkout_failed" } -> "failed"
      [] event_type \in { "transaction_cancelled", "payment_cancelled",
                          "checkout_cancelled", "checkout_expired" }
           -> "canceled"
      [] OTHER -> "not_supported"

\* {session_id: checkout_reference || id || "", amount: amount || 0}
SumUpWebhookData(resource) ==
    [ session_id |->
          IF resource.checkout_reference # Undefined
          THEN resource.checkout_reference
          ELSE IF resource.id # NoId THEN IdString(resource.id) ELSE "",
      amount |-> BigNumber(resource.amount) ]

\* getWebhookActionAndData(payload): no request is sent; reading a field
\* of a missing resource throws inside the try block
SumUpWebhook(payload) ==
    IF payload.resource = NoResource
    THEN ActionResult("getWebhookActionAndData", NoId, "failed",
                      [session_id |-> "", amount |-> BigNumber(0)],
                      <<>>, payload)
    ELSE ActionResult("getWebhookActionAndData", payload.resource.id,
                      SumUpEventAction(payload.event_type),
                      SumUpWebhookData(payload.resource), <<>>, payload)

SumUp_getWebhookActionAndData ==
    /\ provider = "sumup"
    /\ \E payload \in SumUpWebhookPayloads :
         Returns(SumUpWebhook(payload))
    /\ UNCHANGED <<calls, captures, provider, options, mollie, sumup>>

\* createParams of initiatePayment; the checkout reference is a fresh
\* random string, not the host's idempotency key
SumUpCreateParams(input, merchantCode) ==
    [ amount |-> input.amount, currency |-> input.currency_code,
      checkout_reference |-> "medusa_ref", merchant_code |-> merchantCode ]

\* the checkout the gateway creates for a create request
SumUpCreated(params) ==
    [ exists |-> TRUE, status |-> "PENDING", amount |-> params.amount,
      currency |-> params.currency,
      checkout_reference |-> params.checkout_reference,
      merchant_code |-> params.merchant_code, transactions |-> <<>> ]

\* SumUpClient.createCheckout(data): the requests it sends on each path
CreateCheckoutSent(params, path) ==
    LET sdk == [kind |-> "checkouts.create", id |-> NoId, params |-> params]
        fetch == [kind |-> "POST /v0.1/checkouts", id |-> NoId,
                  params |-> params,
                  body |-> [amount |-> JsonNumber(params.amount)]]
    IN  IF path = "sdk" THEN <<sdk>> ELSE <<sdk, fetch>>

\* initiatePayment: the result and the gateway after it.  merchantOk tells
\* whether getMerchant answers (it is called only when options.merchantCode
\* is not set)
SumUpInitiate(input, merchantOk, path) ==
    LET lookup == options.merchantCode = Undefined
        merchantCode == IF lookup THEN "MC_FROM_API"
                        ELSE options.merchantCode
        params == SumUpCreateParams(input, merchantCode)
        id == NextId(sumup)
        read == IF lookup THEN <<Req("merchant.get", NoId)>> ELSE <<>>
        sent == read \o CreateCheckoutSent(params, path)
    IN  IF lookup /\ ~merchantOk
        THEN [ result |-> Throw("initiatePayment", NoId,
                   MedusaError("payment_authorization_error",
                       <<"Failed to get merchant information from SumUp">>),
                   read, input),
               gateway |-> sumup ]
        ELSE IF path = "fail"
        THEN [ result |-> Throw("initiatePayment", NoId,
                   HandleApiError("Error", NetworkMessage), sent, input),
               gateway |-> sumup ]
        ELSE [ result |-> Result("initiatePayment", id, TRUE, "",
                   [ id |-> id,
                     checkout_reference |-> params.checkout_reference,
                     amount |-> params.amount,
                     currency |-> params.currency,
                     status |-> "PENDING",
                     merchant_code |-> params.merchant_code ],
                   NoErr, sent, input),
               gateway |-> [sumup EXCEPT ![id] = SumUpCreated(params)] ]

SumUp_initiatePayment ==
    /\ provider = "sumup"
    /\ FreeIds(sumup) # {}
    /\ \E input \in InitiateInputs, merchantOk \in BOOLEAN,
          path \in ClientPaths :
         LET c == SumUpInitiate(input, merchantOk, path) IN
         /\ sumup' = c.gateway
         /\ Returns(c.result)
    /\ UNCHANGED <<calls, captures, provider, options, mollie>>

SumUpRetrieve(id, path) ==
    LET input == [id |-> id]
        c == GetCheckout(id, path)
    IN  IF id = NoId
        THEN Result("retrievePayment", id, TRUE, "", input, NoErr, <<>>, input)
        ELSE IF ~c.ok
        THEN Result("retrievePayment", id, TRUE, "", input, NoErr, c.sent,
                    input)
        ELSE Result("retrievePayment", id, TRUE, "",
                    Spread(input, [ status |-> c.checkout.status,
                                    amount |-> c.checkout.amount,
                                    currency |-> c.checkout.currency,
                                    transactions |-> c.checkout.transactions ]),
                    NoErr, c.sent, input)

SumUp_retrievePayment ==
    /\ provider = "sumup"
    /\ \E id \in InputIds, path \in ClientPaths :
         Returns(Saw(SumUpRetrieve(id, path), SumUpSeen(id, path)))
    /\ UNCHANGED <<calls, captures, provider, options, mollie, sumup>>

\* input.data.transactions of refundPayment, as the host may have stored
\* them: none, a failed one, a successful one, a failed and a successful
RefundTransactions ==
    { <<>>, SumUpTransactions("FAILED"), SumUpTransactions("PAID"),
      << [id |-> "tx_1", status |-> "FAILED"],
         [id |-> "tx_2", status |-> "SUCCESSFUL"] >> }

\* input.amount of refundPayment, in minor units
RefundAmounts == { 0, 1050 }

\* transactions.find(t => t.status === "SUCCESSFUL"): the index of the
\* first successful transaction, 0 when there is none
FindSuccessful(transactions) ==
    LET hits == { i \in DOMAIN transactions :
                    transactions[i].status = "SUCCESSFUL" }
    IN  IF hits = {} THEN 0
        ELSE CHOOSE i \in hits : \A j \in hits : i <= j

\* refundPayment: hasTransactions tells whether input.data carries a
\* transactions field; the gateway refunds a transaction of a paid checkout
SumUpRefund(id, hasTransactions, txs, amount, net) ==
    LET input == IF hasTransactions THEN [id |-> id, transactions |-> txs]
                 ELSE [id |-> id]
        transactions == IF hasTransactions THEN txs ELSE <<>>
        found == FindSuccessful(transactions)
        refundData == IF amount # 0 THEN [amount |-> amount] ELSE NoData
        refund == [ kind |-> "POST /v0.1/me/refund", id |-> NoId,
                    transaction |-> transactions[found].id,
                    params |-> refundData,
                    body |-> IF amount # 0
                             THEN [amount |-> JsonNumber(amount)]
                             ELSE NoData ]
        accepted == net /\ id \in PaymentIds /\ sumup[id].status = "PAID"
    IN  IF Len(transactions) = 0
        THEN Throw("refundPayment", id,
                   MedusaError("invalid_data",
                       <<"No transactions found for refund">>),
                   <<>>, input)
        ELSE IF found = 0
        THEN Throw("refundPayment", id,
                   MedusaError("invalid_data",
                       <<"No successful transaction found for refund">>),
                   <<>>, input)
        ELSE IF ~accepted
        THEN Throw("refundPayment", id,
                   HandleApiError("Error",
                       IF net THEN "Conflict" ELSE NetworkMessage),
                   <<refund>>, input)
        ELSE Result("refundPayment", id, TRUE, "",
                    Spread(input, [refunded_amount |-> amount]),
                    NoErr, <<refund>>, input)

SumUp_refundPayment ==
    /\ provider = "sumup"
    /\ \E id \in InputIds, hasTransactions \in BOOLEAN,
          txs \in RefundTransactions, amount \in RefundAmounts,
          net \in BOOLEAN :
         /\ ~hasTransactions => txs = <<>>
         \* no refund request is made without a successful transaction
         /\ FindSuccessful(txs) = 0 => (amount = 0 /\ net)
         /\ Returns(SumUpRefund(id, hasTransactions, txs, amount, net))
    /\ UNCHANGED <<calls, captures, provider, options, mollie, sumup>>

\* what SumUpClient.deactivateCheckout meets: the SDK deactivates the
\* checkout, or the SDK call fails and a mock response is returned
DeactivateOutcomes == { "deactivated", "failed" }

\* the status cancelPayment puts in the data it returns
CancelledStatus == "CANCELLED"

\* cancelPayment on the data initiatePayment returned: the result and the
\* gateway after it.  No error of deactivateCheckout reaches the caller.
SumUpCancel(id, outcome) ==
    LET input == [id |-> id, status |-> "PENDING"]
        deactivate == Req("checkouts.deactivate", id)
        deactivated == /\ outcome = "deactivated" /\ id \in PaymentIds
                       /\ sumup[id].exists /\ sumup[id].status = "PENDING"
        gw2 == IF deactivated
               THEN [sumup EXCEPT ![id].status = "EXPIRED"]
               ELSE sumup
    IN  [ result |->
            Result("cancelPayment", id, TRUE, "",
                   Spread(input, [status |-> CancelledStatus]), NoErr,
                   IF id = NoId THEN <<>> ELSE <<deactivate>>, input),
          gateway |-> gw2 ]

SumUp_cancelPayment ==
    /\ provider = "sumup"
    /\ \E id \in InputIds, outcome \in DeactivateOutcomes :
         LET c == SumUpCancel(id, outcome) IN
         /\ sumup' = c.gateway
         /\ Returns(c.result)
    /\ UNCHANGED <<calls, captures, provider, options, mollie>>

\* deletePayment: returns input.data and sends nothing
SumUpDelete(id) ==
    LET input == [id |-> id, status |-> "PENDING"]
    IN  Result("deletePayment", id, TRUE, "", input, NoErr, <<>>, input)

SumUp_deletePayment ==
    /\ provider = "sumup"
    /\ \E id \in InputIds : Returns(SumUpDelete(id))
    /\ UNCHANGED <<calls, captures, provider, options, mollie, sumup>>

----------------------------------------------------------------------------
(* SumUpClient of sumup/core/sumup-client.ts, a provider of its own; its  *)
(* results carry the operation name "SumUpClient.authorizePayment"        *)

\* what the gateway does with client.checkouts.process: the payment goes
\* through, or is declined, or the request fails
ProcessOutcomes == { "PAID", "FAILED", "rejected" }

\* the status authorizePayment returns: a literal
SumUpClientAuthorizeStatus(status) == "authorized"

\* authorizePayment: the result and the gateway after it
SumUpClientAuthorize(id, net, outcome) ==
    LET input == [checkoutId |-> id]
        get == Req("checkouts.get", id)
        process == Req("checkouts.process", id)
        found == net /\ id \in PaymentIds /\ sumup[id].exists
        pending == found /\ sumup[id].status = "PENDING"
        gw2 == IF pending /\ outcome # "rejected"
               THEN [sumup EXCEPT ![id].status = outcome,
                        ![id].transactions = SumUpTransactions(outcome)]
               ELSE sumup
        out(r, gw) ==
            [ result |-> Saw(r, IF ~found THEN <<>>
                                ELSE IF pending /\ outcome # "rejected"
                                THEN <<sumup[id].status, gw[id].status>>
                                ELSE <<sumup[id].status>>),
              gateway |-> gw ]
        failed(msg, sent) ==
            Throw("SumUpClient.authorizePayment", id,
                  MedusaError("error", <<"SumUp authorization failed: ", msg>>),
                  sent, input)
    IN  IF id = NoId
        THEN out(failed("No checkout ID found in payment data", <<>>), sumup)
        ELSE IF ~found
        THEN out(failed(IF net THEN NotFoundMessage ELSE NetworkMessage,
                        <<get>>), sumup)
        ELSE IF pending /\ outcome = "rejected"
        THEN out(failed(NetworkMessage, <<get, process>>), sumup)
        ELSE out(Result("SumUpClient.authorizePayment", id, TRUE,
                        SumUpClientAuthorizeStatus(gw2[id].status),
                        [ checkoutId |-> id, status |-> gw2[id].status,
                          amount |-> gw2[id].amount,
                          currency |-> gw2[id].currency ],
                        NoErr,
                        IF pending THEN <<get, process>> ELSE <<get>>,
                        input), gw2)

SumUpClient_authorizePayment ==
    /\ provider = "sumup"
    /\ \E id \in InputIds, net \in BOOLEAN, outcome \in ProcessOutcomes :
         LET a == SumUpClientAuthorize(id, net, outcome) IN
         \* no process request is made without an id or after a failed read
         /\ (id = NoId \/ ~net) => outcome = "PAID"
         /\ sumup' = a.gateway
         /\ Returns(a.result)
    /\ UNCHANGED <<calls, captures, provider, options, mollie>>

----------------------------------------------------------------------------
Init ==
    /\ provider \in Providers
    /\ options \in [autoCapture : AutoCaptureOptions,
                    merchantCode : {"MC1", Undefined}]
    /\ provider = "mollie" => options.merchantCode = Undefined
    \* no handler of the SumUp providers reads autoCapture
    /\ provider = "sumup" => options.autoCapture = "true"
    /\ mollie = [id \in PaymentIds |-> NoPayment]
    /\ sumup = [id \in PaymentIds |-> NoCheckout]
    /\ last = NoResult
    /\ prev = NoResult
    /\ calls = [c \in Callers |-> NoCall]
    /\ captures = [id \in PaymentIds |-> 0]

Next ==
    \/ MollieGatewayStep
    \/ Mollie_getPaymentStatus
    \/ Mollie_initiatePayment
    \/ Mollie_authorizePayment
    \/ Mollie_capturePayment
    \/ Mollie_getWebhookActionAndData
    \/ Mollie_retrievePayment
    \/ Mollie_refundPayment
    \/ Mollie_cancelPayment
    \/ Mollie_deletePayment
    \/ SumUpGatewayStep
    \/ SumUp_getPaymentStatus
    \/ SumUp_authorizePayment
    \/ SumUp_capturePayment
    \/ SumUp_getWebhookActionAndData
    \/ SumUp_initiatePayment
    \/ SumUp_retrievePayment
    \/ SumUp_refundPayment
    \/ SumUp_cancelPayment
    \/ SumUp_deletePayment
    \/ SumUpClient_authorizePayment

Spec == Init /\ [][Next]_vars

----------------------------------------------------------------------------
(* Two concurrent capturePayment calls of MolliePaymentProviderService for
   one authorized payment.  Each await of the handler is one step; the
   gateway accepts one capture request for a payment and rejects any later
   one. *)

\* the payment both calls are about: the first one the gateway created
FirstId == NextId([id \in PaymentIds |-> NoPayment])

\* a call that has just been made
NewCall == [pc |-> "start", status |-> "", sent |-> <<>>, result |-> NoResult]

\* the gateway accepts a capture request for an authorized payment that has
\* no capture yet
GatewayAcceptsCapture(id) ==
    mollie[id].status = "authorized" /\ captures[id] = 0

\* the handler after a status read: it sends the capture request when
\* capture tells so, throws when the status is not captured, and goes on
\* to retrievePayment otherwise
AfterStatus(call, status, capture) ==
    LET sent == Append(call.sent, Req("payments.get", FirstId))
    IN  IF capture
        THEN [call EXCEPT !.pc = "capture", !.status = status,
                          !.sent = sent]
        ELSE IF ~IsCaptured(status)
        THEN [call EXCEPT !.pc = "done", !.status = status, !.sent = sent,
                 !.result = Throw("capturePayment", FirstId,
                     MedusaError("invalid_data",
                         <<"Payment is not captured: current status is ",
                           status>>),
                     sent, [id |-> FirstId])]
        ELSE [call EXCEPT !.pc = "retrieve", !.status = status,
                          !.sent = sent]

\* let status = await this.getPaymentStatus(...)
Capture_getPaymentStatus(c) ==
    /\ calls[c].pc = "start"
    /\ LET status == MollieStatusMap(mollie[FirstId].status) IN
       calls' = [calls EXCEPT ![c] =
                   AfterStatus(calls[c], status,
                               ShouldCapture(status, options.autoCapture))]
    /\ UNCHANGED <<captures, provider, options, mollie, sumup, last, prev>>

\* await this.client.paymentCaptures.create({paymentId})
Capture_paymentCapturesCreate(c) ==
    /\ calls[c].pc = "capture"
    /\ LET sent == Append(calls[c].sent,
                          Req("paymentCaptures.create", FirstId))
       IN  IF GatewayAcceptsCapture(FirstId)
           THEN /\ captures' = [captures EXCEPT ![FirstId] = @ + 1]
                /\ calls' = [calls EXCEPT ![c].pc = "reread",
                                          ![c].sent = sent]
           ELSE /\ \E message \in GatewayMessages :
                     calls' = [calls EXCEPT ![c].pc = "done",
                         ![c].sent = sent,
                         ![c].result = Throw("capturePayment", FirstId,
                             MedusaError("gateway", <<message>>), sent,
                             [id |-> FirstId])]
                /\ UNCHANGED captures
    /\ UNCHANGED <<provider, options, mollie, sumup, last, prev>>

\* status = await this.getPaymentStatus(...), after the capture request
Capture_getPaymentStatusAgain(c) ==
    /\ calls[c].pc = "reread"
    /\ calls' = [calls EXCEPT ![c] =
                   AfterStatus(calls[c],
                               MollieStatusMap(mollie[FirstId].status),
                               FALSE)]
    /\ UNCHANGED <<captures, provider, options, mollie, sumup, last, prev>>

\* const payment = await this.retrievePayment(...); return {data}
Capture_retrievePayment(c) ==
    /\ calls[c].pc = "retrieve"
    /\ LET sent == Append(calls[c].sent, Req("payments.get", FirstId))
       IN  calls' = [calls EXCEPT ![c].pc = "done", ![c].sent = sent,
                       ![c].result = Result("capturePayment", FirstId, TRUE,
                           "", MolliePaymentData(FirstId), NoErr, sent,
                           [id |-> FirstId])]
    /\ UNCHANGED <<captures, provider, options, mollie, sumup, last, prev>>

\* the gateway settles an accepted capture: the payment becomes paid
GatewaySettlesCapture ==
    /\ captures[FirstId] > 0
    /\ mollie[FirstId].status = "authorized"
    /\ mollie' = [mollie EXCEPT ![FirstId].status = "paid"]
    /\ UNCHANGED <<calls, captures, provider, options, sumup, last, prev>>

\* a payment created with autoCapture disabled and authorized by the
\* customer, and two capturePayment calls just made for it
InitCapture ==
    /\ provider = "mollie"
    /\ options \in [autoCapture : AutoCaptureOptions \ {"true"},
                    merchantCode : {Undefined}]
    /\ \E input \in InitiateInputs :
         mollie = [id \in PaymentIds |->
                     IF id = FirstId
                     THEN [MollieCreated(CreateParams(input))
                             EXCEPT !.status = "authorized"]
                     ELSE NoPayment]
    /\ sumup = [id \in PaymentIds |-> NoCheckout]
    /\ last = NoResult
    /\ prev = NoResult
    /\ calls = [c \in Callers |-> NewCall]
    /\ captures = [id \in PaymentIds |-> 0]

NextCapture ==
    \/ \E c \in Callers : Capture_getPaymentStatus(c)
    \/ \E c \in Callers : Capture_paymentCapturesCreate(c)
    \/ \E c \in Callers : Capture_getPaymentStatusAgain(c)
    \/ \E c \in Callers : Capture_retrievePayment(c)
    \/ GatewaySettlesCapture

ConcurrentCapture == InitCapture /\ [][NextCapture]_vars

----------------------------------------------------------------------------
(* Properties *)

\* number of requests of the given kinds among the requests of a call
Count(sent, kinds) ==
    Cardinality({ i \in DOMAIN sent : sent[i].kind \in kinds })

CaptureRequests == { "paymentCaptures.create" }
ReadRequests ==
    { "payments.get", "checkouts.get", "GET /v0.1/checkouts", "merchant.get" }

\* the error of a call whose gateway request failed
GatewayFailure(r) ==
    ~r.ok /\ r.err.type \in {"gateway", "payment_authorization_error"}

\* a successful call none of whose gateway requests failed (the SumUp
\* client falls back to fetch when its SDK request fails)
Undisturbed(r) ==
    r.ok /\ Count(r.sent, {"GET /v0.1/checkouts"}) = 0

\* the amount of a result, NoAmount when it has none
AmountOf(r) == IF "amount" \in DOMAIN r.data THEN r.data.amount ELSE NoAmount

\* the payloads a provider's webhook can receive, the id in a payload, and
\* the reconciler's answer to a payload under given gateway answers
C1_Payloads ==
    IF provider = "mollie" THEN MollieWebhookPayloads
    ELSE SumUpWebhookPayloads

C1_PayloadId(payload) ==
    IF provider = "mollie" THEN payload.id
    ELSE IF payload.resource = NoResource THEN NoId
    ELSE payload.resource.id

C1_Deliver(payload, net1, net2) ==
    IF provider = "mollie" THEN MollieWebhook(payload, net1, net2)
    ELSE SumUpWebhook(payload)

C1_Outcome(r) == [ok |-> r.ok, action |-> r.action, amount |-> AmountOf(r)]

\* C1 -- as claimed: every webhook delivery is answered from a record
\* fetched from the gateway by the id in the payload, and its action and
\* amount do not depend on the other fields of the payload: any other
\* payload with the same id gets, in the same gateway state and with the
\* same gateway answers, the same action and amount.
C1_WebhookAnsweredFromGateway ==
    last.op = "getWebhookActionAndData" =>
        /\ last.ok =>
             \E i \in DOMAIN last.sent :
                 /\ last.sent[i].kind \in ReadRequests
                 /\ last.sent[i].id = C1_PayloadId(last.input)
        /\ \A q \in C1_Payloads, net1 \in BOOLEAN, net2 \in BOOLEAN :
             C1_PayloadId(q) = C1_PayloadId(last.input) =>
                 C1_Outcome(C1_Deliver(q, net1, net2))
                     = C1_Outcome(C1_Deliver(last.input, net1, net2))

\* The Mollie half of C1, which the code satisfies.
C1_MollieWebhookAnsweredFromGateway ==
    provider = "mollie" => C1_WebhookAnsweredFromGateway

\* the transition table of the specification (gateway status -> action)
TransitionTable(status) ==
    CASE status = "authorized" -> "authorized"
      [] status = "paid" -> "captured"
      [] status = "expired" -> "failed"
      [] status = "failed" -> "failed"
      [] status = "canceled" -> "canceled"
      [] status = "pending" -> "pending"
      [] status = "open" -> "requires_more"
      [] OTHER -> "not_supported"

\* C2 -- when the re-fetch of Mollie's getWebhookActionAndData succeeds,
\* the action returned is the one the transition table gives for the
\* status of the fetched record.
C2_WebhookFollowsTransitionTable ==
    ( /\ provider = "mollie"
      /\ last.op = "getWebhookActionAndData"
      /\ Len(last.sent) = 1 /\ Len(last.seen) = 1 ) =>
        /\ last.ok
        /\ last.action = TransitionTable(last.seen[1])
        /\ last.data.status = last.seen[1]

C2_Witness ==
    /\ provider = "mollie"
    /\ last.op = "getWebhookActionAndData"
    /\ last.seen = <<"paid">> /\ Len(last.sent) = 1
    /\ last.action = "captured"
    /\ last.input.status = "failed"

C2_WitnessUnknown ==
    /\ provider = "mollie"
    /\ last.op = "getWebhookActionAndData"
    /\ last.seen = <<UnknownMollieStatus>> /\ last.action = "not_supported"

\* C3 -- Mollie's capturePayment with autoCapture false on a payment read
\* as authorized sends exactly one capture request, right after the first
\* read, and reads the status again if the gateway accepted the request;
\* it returns data only if that second read shows the payment paid
\* (captured), and if the second read still shows authorized it throws an
\* error whose message names "authorized".
C3_CaptureConfirmed ==
    ( /\ provider = "mollie"
      /\ options.autoCapture = "false"
      /\ last.op = "capturePayment"
      /\ Len(last.seen) >= 1 /\ last.seen[1] = "authorized" ) =>
        /\ Count(last.sent, CaptureRequests) = 1
        /\ Len(last.sent) >= 2
        /\ last.sent[1].kind = "payments.get"
        /\ last.sent[2].kind = "paymentCaptures.create"
        /\ Len(last.sent) >= 3 => last.sent[3].kind = "payments.get"
        /\ Len(last.sent) = 2 => GatewayFailure(last)
        /\ last.ok =>
             /\ Len(last.seen) = 3 /\ last.seen[2] = "paid"
             /\ last.data.id = last.id /\ last.data.status = "paid"
        /\ (Len(last.seen) >= 2 /\ last.seen[2] = "authorized") =>
             /\ ~last.ok
             /\ last.err.msg =
                  <<"Payment is not captured: current status is ",
                    "authorized">>

C3_Witness ==
    /\ provider = "mollie"
    /\ options.autoCapture = "false"
    /\ last.op = "capturePayment"
    /\ last.seen = <<"authorized", "paid", "paid">>
    /\ last.ok

C3_WitnessStillAuthorized ==
    /\ provider = "mollie"
    /\ options.autoCapture = "false"
    /\ last.op = "capturePayment"
    /\ last.seen = <<"authorized", "authorized">>
    /\ ~last.ok

C4_WitnessSumUp ==
    /\ provider = "sumup"
    /\ prev.op = "capturePayment" /\ Undisturbed(prev)
    /\ last.op = "capturePayment" /\ Undisturbed(last)

\* C5 -- Mollie's initiatePayment sends the create request with capture
\* mode manual when the option autoCapture is false and with capture mode
\* automatic when it is true.
C5_CaptureModeFollowsOption ==
    ( /\ provider = "mollie"
      /\ last.op = "initiatePayment"
      /\ options.autoCapture \in {"true", "false"} ) =>
        /\ Len(last.sent) = 1
        /\ last.sent[1].kind = "payments.create"
        /\ last.sent[1].params.captureMode =
             ( IF options.autoCapture = "false" THEN "manual"
               ELSE "automatic" )

C5_Witness ==
    /\ provider = "mollie"
    /\ last.op = "initiatePayment" /\ last.ok
    /\ options.autoCapture = "false"
    /\ last.sent[1].params.captureMode = "manual"
    /\ mollie[last.id].captureMode = "manual"

C5_WitnessAutomatic ==
    /\ provider = "mollie"
    /\ last.op = "initiatePayment" /\ last.ok
    /\ options.autoCapture = "true"
    /\ last.sent[1].params.captureMode = "automatic"

\* C6 -- as claimed: a Mollie provider constructed without the autoCapture
\* option behaves as one constructed with autoCapture true: initiatePayment
\* requests automatic capture mode and capturePayment sends no capture
\* request.
C6_AutoCaptureDefaultsToTrue ==
    ( provider = "mollie" /\ options.autoCapture = Undefined ) =>
        /\ last.op = "initiatePayment" =>
             last.sent[1].params.captureMode = "automatic"
        /\ last.op = "capturePayment" =>
             Count(last.sent, CaptureRequests) = 0

\* C7 -- with autoCapture true, capturePayment sends no capture request,
\* whatever status it reads.
C7_NoCaptureRequestWhenAutoCapture ==
    ( last.op = "capturePayment" /\ options.autoCapture = "true" ) =>
        /\ Count(last.sent, CaptureRequests) = 0
        /\ \A i \in DOMAIN last.sent : last.sent[i].kind \in ReadRequests

C7_Witness ==
    /\ provider = "mollie"
    /\ options.autoCapture = "true"
    /\ last.op = "capturePayment"
    /\ last.seen = <<"authorized">>
    /\ ~last.ok

\* the statuses each adapter's status map has a row for
KnownStatuses ==
    IF provider = "mollie" THEN PaymentStatus
    ELSE { "PENDING", "FAILED", "PAID" }

\* C8 -- as claimed: the status getPaymentStatus returns for a status it
\* read from the gateway is one of the six host statuses, and it is ERROR
\* when the gateway status is outside the adapter's vocabulary.
C8_StatusMapperFailClosed ==
    ( last.op = "getPaymentStatus" /\ last.ok ) =>
        /\ last.status \in HostPaymentStatus
        /\ (Len(last.seen) = 1 /\ last.seen[1] \notin KnownStatuses) =>
             last.status = PaymentSessionStatus.ERROR

\* the status table of the specification for Mollie
StatusTable ==
    [ open |-> "requires_more", pending |-> "pending",
      authorized |-> "authorized", paid |-> "captured",
      canceled |-> "canceled", expired |-> "error", failed |-> "error" ]

\* C9 -- Mollie's getPaymentStatus maps open to REQUIRES_MORE, pending to
\* PENDING, authorized to AUTHORIZED, paid to CAPTURED, canceled to
\* CANCELED, expired to ERROR and failed to ERROR.
C9_MollieStatusTable ==
    ( /\ provider = "mollie"
      /\ last.op = "getPaymentStatus"
      /\ Len(last.seen) = 1 /\ last.seen[1] \in DOMAIN StatusTable ) =>
        /\ last.ok
        /\ last.status = StatusTable[last.seen[1]]

C9_Witness ==
    /\ provider = "mollie"
    /\ last.op = "getPaymentStatus"
    /\ last.seen = <<"expired">>
    /\ last.status = "error"

C9_WitnessPaid ==
    /\ provider = "mollie"
    /\ last.op = "getPaymentStatus"
    /\ last.seen = <<"paid">>
    /\ last.status = "captured"

\* the host status an adapter's status map gives a gateway status
Mapped(status) ==
    IF provider = "mollie" THEN MollieStatusMap(status)
    ELSE SumUpStatusMap(status)

AuthorizeOps == { "authorizePayment", "SumUpClient.authorizePayment" }

\* C10 -- as claimed: authorizePayment of every adapter returns only when
\* the gateway's current status maps to AUTHORIZED or CAPTURED, throws an
\* error naming the current status otherwise, and never returns the status
\* authorized for a record that is not authorized or paid.
C10_AuthorizeOnlyWhenAuthorized ==
    ( last.op \in AuthorizeOps /\ Len(last.seen) >= 1 ) =>
        LET current == last.seen[Len(last.seen)]
            accepted == Mapped(current) \in { PaymentSessionStatus.AUTHORIZED,
                                              PaymentSessionStatus.CAPTURED }
        IN  /\ last.ok => accepted
            /\ ~accepted =>
                 /\ ~last.ok
                 /\ \E i \in DOMAIN last.err.msg :
                        last.err.msg[i] \in {current, Mapped(current)}
            /\ (last.ok /\ last.status = PaymentSessionStatus.AUTHORIZED) =>
                 current \in {"authorized", "paid", "PAID"}

\* C10, its last clause alone -- as claimed: no authorizePayment returns
\* the status authorized for a payment whose gateway record is not
\* authorized or paid.
C10_NeverAuthorizedUnlessPaid ==
    ( /\ last.op \in AuthorizeOps /\ Len(last.seen) >= 1
      /\ last.ok /\ last.status = PaymentSessionStatus.AUTHORIZED ) =>
        last.seen[Len(last.seen)] \in {"authorized", "paid", "PAID"}

\* The Mollie part of C10, which the code satisfies.
C10_MollieAuthorizeOnlyWhenAuthorized ==
    provider = "mollie" => C10_AuthorizeOnlyWhenAuthorized

\* C11 -- as claimed: authorizePayment of every adapter sends only reads
\* of the payment or checkout to the gateway, no state-changing request.
C11_AuthorizeReadOnly ==
    last.op \in AuthorizeOps =>
        \A i \in DOMAIN last.sent : last.sent[i].kind \in ReadRequests

\* The part of C11 for MolliePaymentProviderService and SumUpBase, which
\* the code satisfies.
C11_ProviderAuthorizeReadOnly ==
    last.op = "authorizePayment" =>
        \A i \in DOMAIN last.sent : last.sent[i].kind \in ReadRequests

RefundRequests == { "paymentRefunds.create", "POST /v0.1/me/refund" }

\* the payment of a refundPayment call has a settled transaction: Mollie's
\* record read as paid; for SumUp a SUCCESSFUL transaction in the data
Settled(r) ==
    IF provider = "mollie"
    THEN Len(r.seen) >= 1 /\ r.seen[1] = "paid"
    ELSE /\ "transactions" \in DOMAIN r.input
         /\ FindSuccessful(r.input.transactions) # 0

\* C12 -- as claimed: refundPayment sends a refund request only for a
\* payment that has a settled transaction, and for a payment that has none
\* it fails with an error and sends no refund request.
C12_RefundOnlySettled ==
    last.op = "refundPayment" =>
        /\ Count(last.sent, RefundRequests) > 0 => Settled(last)
        /\ ~Settled(last) =>
             ~last.ok /\ Count(last.sent, RefundRequests) = 0

\* The SumUp half of C12, which the code satisfies.
C12_SumUpRefundOnlySettled ==
    provider = "sumup" => C12_RefundOnlySettled

\* requests that change a payment or checkout at the gateway
MutatingRequests ==
    { "payments.create", "paymentCaptures.create", "paymentRefunds.create",
      "payments.cancel", "payments.update", "checkouts.create",
      "POST /v0.1/checkouts", "checkouts.process", "checkouts.deactivate",
      "POST /v0.1/me/refund" }

\* the status the gateway holds for a payment or checkout
GatewayStatus(id) ==
    IF provider = "mollie" THEN mollie[id].status ELSE sumup[id].status

GatewayHolds(id) ==
    IF provider = "mollie" THEN mollie[id].exists ELSE sumup[id].exists

\* the result of cancelPayment for id in the current state, the gateway
\* answering the reads; accepted tells what it does with a cancel request
CancelResult(id, accepted) ==
    IF provider = "mollie"
    THEN MollieCancel("cancelPayment", id, TRUE, accepted).result
    ELSE SumUpCancel(id, IF accepted THEN "deactivated" ELSE "failed").result

TerminalStatuses ==
    IF provider = "mollie" THEN {"expired", "failed"}
    ELSE {"EXPIRED", "FAILED"}

\* C13 -- as claimed: in every reachable state, cancelPayment for a
\* payment that the gateway holds as expired or failed succeeds, returns
\* the data it was called with, and sends no mutating request.
C13_CancelTerminalNoMutation ==
    \A id \in PaymentIds, accepted \in BOOLEAN :
        (GatewayHolds(id) /\ GatewayStatus(id) \in TerminalStatuses) =>
            LET r == CancelResult(id, accepted)
            IN  /\ r.ok
                /\ r.data = r.input
                /\ Count(r.sent, MutatingRequests) = 0

\* The case of C13 that the code satisfies: a Mollie payment read as
\* expired.
C13_MollieCancelExpiredNoMutation ==
    ( /\ provider = "mollie" /\ last.op = "cancelPayment"
      /\ last.seen = <<"expired">> ) =>
        /\ last.ok
        /\ last.data = last.input
        /\ Count(last.sent, MutatingRequests) = 0

CancelRequests == { "payments.cancel", "checkouts.deactivate" }

\* the payment as it was before the cancel attempt: the record Mollie's
\* handler fetched, the data SumUp's handler was called with
CancelSnapshot(id, r) ==
    IF provider = "mollie" THEN MolliePaymentData(id) ELSE r.input

\* C14 -- as claimed: in every reachable state, a cancelPayment whose
\* cancel or deactivate request fails at the gateway returns success, with
\* data equal to the payment as it was before the attempt.
C14_CancelFailureReturnsSnapshot ==
    \A id \in PaymentIds :
        LET r == CancelResult(id, FALSE)
        IN  (GatewayHolds(id) /\ Count(r.sent, CancelRequests) > 0) =>
                /\ r.ok
                /\ r.data = CancelSnapshot(id, r)

\* The part of C14 that the code satisfies: the failure of the cancel or
\* deactivate request is not propagated.
C14_CancelFailureNotPropagated ==
    \A id \in PaymentIds :
        LET r == CancelResult(id, FALSE)
        IN  (GatewayHolds(id) /\ Count(r.sent, CancelRequests) > 0) => r.ok

\* two calls send the same requests and end the same way
SameCall(a, b) == [a EXCEPT !.op = ""] = [b EXCEPT !.op = ""]

\* deletePayment and cancelPayment for id in the current state under the
\* same gateway answers: the result and the gateway after the call
DeleteCall(id, net, accepted) ==
    IF provider = "mollie" THEN MollieDelete(id, net, accepted)
    ELSE [result |-> SumUpDelete(id), gateway |-> sumup]

CancelCall(id, net, accepted) ==
    IF provider = "mollie"
    THEN MollieCancel("cancelPayment", id, net, accepted)
    ELSE SumUpCancel(id, IF net /\ accepted THEN "deactivated" ELSE "failed")

\* C15 -- as claimed: in every reachable state, for every input and every
\* gateway answer, deletePayment sends the same requests, returns the same
\* result and leaves the gateway in the same state as cancelPayment.
C15_DeleteIsCancel ==
    \A id \in InputIds, net \in BOOLEAN, accepted \in BOOLEAN :
        /\ SameCall(DeleteCall(id, net, accepted).result,
                    CancelCall(id, net, accepted).result)
        /\ DeleteCall(id, net, accepted).gateway
             = CancelCall(id, net, accepted).gateway

\* The Mollie half of C15, which the code satisfies.
C15_MollieDeleteIsCancel ==
    provider = "mollie" => C15_DeleteIsCancel

ReadOps == { "getPaymentStatus", "retrievePayment" }

\* a call whose gateway fetch failed: a request was sent and no record
\* came back
FetchFailed(r) == Len(r.sent) >= 1 /\ r.seen = <<>>

\* C16 -- as claimed: when the gateway fetch of getPaymentStatus or of
\* retrievePayment fails, the call does not throw: getPaymentStatus
\* returns the status ERROR and retrievePayment returns its input data.
C16_ReadsNeverThrow ==
    ( last.op \in ReadOps /\ FetchFailed(last) ) =>
        /\ last.ok
        /\ last.op = "getPaymentStatus" =>
             last.status = PaymentSessionStatus.ERROR
        /\ last.op = "retrievePayment" => last.data = last.input

\* The SumUp half of C16, which the code satisfies.
C16_SumUpReadsNeverThrow ==
    provider = "sumup" => C16_ReadsNeverThrow

C16_WitnessSumUp ==
    /\ provider = "sumup"
    /\ last.op = "retrievePayment" /\ FetchFailed(last)
    /\ last.ok /\ last.data = last.input

C17_WitnessSumUp ==
    /\ provider = "sumup"
    /\ last.op = "refundPayment"
    /\ Count(last.sent, RefundRequests) = 1
    /\ ~last.ok /\ GatewayFailure(last)

\* C18 -- in every reachable state, for every payload: when the re-fetch
\* of Mollie's getWebhookActionAndData fails and the payment can be read
\* after all, the call returns action failed with the payment's fields in
\* its data; when the payment cannot be read at all the call throws the
\* error of the re-fetch.  SumUp's getWebhookActionAndData never throws,
\* and answers action failed when the payload cannot be read.
C18_WebhookDegradesToFailed ==
    /\ provider = "mollie" =>
         \A payload \in MollieWebhookPayloads, net2 \in BOOLEAN :
             LET r == MollieWebhook(payload, FALSE, net2)
                 p == MollieRetrieve(payload.id, net2)
             IN  IF p.ok
                 THEN /\ r.ok /\ r.action = "failed"
                      /\ \A k \in DOMAIN p.data : r.data[k] = p.data[k]
                 ELSE /\ ~r.ok
                      /\ r.err.msg = <<MollieGetErr(payload.id, FALSE)>>
    /\ provider = "sumup" =>
         \A payload \in SumUpWebhookPayloads :
             /\ SumUpWebhook(payload).ok
             /\ payload.resource = NoResource =>
                  SumUpWebhook(payload).action = "failed"

C18_Witness ==
    /\ provider = "mollie"
    /\ last.op = "getWebhookActionAndData"
    /\ Len(last.sent) = 2 /\ last.ok
    /\ last.action = "failed" /\ last.data.id = last.id

C18_WitnessPropagated ==
    /\ provider = "mollie"
    /\ last.op = "getWebhookActionAndData"
    /\ Len(last.sent) = 2 /\ ~last.ok
    /\ mollie[1].exists

\* the idempotency key the host gave initiatePayment for the payment a
\* Mollie result is about
HostKey(r) == mollie[r.id].metadata.idempotency_key

\* C19 -- as claimed: initiatePayment puts the host's idempotency key in
\* the create request, and every result getWebhookActionAndData returns
\* for a payment created with key k has data.session_id = k.
C19_SessionIdIsHostKey ==
    provider = "mollie" =>
        /\ (last.op = "initiatePayment" /\ Len(last.sent) = 1) =>
             last.sent[1].params.metadata.idempotency_key
                 = last.input.idempotency_key
        /\ ( /\ last.op = "getWebhookActionAndData" /\ last.ok
             /\ HostKey(last) # Undefined ) =>
               last.data.session_id = HostKey(last)

\* The part of C19 that the code satisfies: the create request carries the
\* key, and a result built from the first read carries it as session_id.
C19_FirstReadSessionIdIsHostKey ==
    provider = "mollie" =>
        /\ (last.op = "initiatePayment" /\ Len(last.sent) = 1) =>
             last.sent[1].params.metadata.idempotency_key
                 = last.input.idempotency_key
        /\ ( /\ last.op = "getWebhookActionAndData" /\ last.ok
             /\ Len(last.sent) = 1 /\ HostKey(last) # Undefined ) =>
               last.data.session_id = HostKey(last)

\* the record (Mollie) or the resource (SumUp) that a webhook result was
\* built from carries no correlation key
NoCorrelationKey(r) ==
    IF provider = "mollie"
    THEN r.ok /\ HostKey(r) = Undefined
    ELSE \/ r.input.resource = NoResource
         \/ /\ r.input.resource.checkout_reference = Undefined
            /\ r.input.resource.id = NoId

\* C20 -- as claimed: a getWebhookActionAndData call that finds no
\* correlation key does not throw and returns the empty string as session
\* id.
C20_EmptySessionId ==
    ( last.op = "getWebhookActionAndData" /\ NoCorrelationKey(last) ) =>
        /\ last.ok
        /\ last.data.session_id = ""

\* The SumUp half of C20, which the code satisfies.
C20_SumUpEmptySessionId ==
    provider = "sumup" => C20_EmptySessionId

C20_WitnessSumUp ==
    /\ provider = "sumup"
    /\ last.op = "getWebhookActionAndData"
    /\ last.input.resource # NoResource
    /\ NoCorrelationKey(last)
    /\ last.data.session_id = ""

\* the requests of a webhook delivery r change nothing at the gateway
WebhookReadOnly(r) ==
    \A i \in DOMAIN r.sent : r.sent[i].kind \notin MutatingRequests

\* two deliveries return the same action and data
SameAnswer(a, b) == a.action = b.action /\ a.data = b.data

\* C21 -- as claimed: getWebhookActionAndData sends no mutating request,
\* and any two deliveries of the same event that meet the same gateway
\* record and both return, return the same action and data, whatever the
\* gateway's answers to the reads of each delivery.
C21_WebhookIdempotent ==
    /\ last.op = "getWebhookActionAndData" => WebhookReadOnly(last)
    /\ provider = "mollie" =>
         \A payload \in MollieWebhookPayloads, n1 \in BOOLEAN,
            n2 \in BOOLEAN, m1 \in BOOLEAN, m2 \in BOOLEAN :
             LET a == MollieWebhook(payload, n1, n2)
                 b == MollieWebhook(payload, m1, m2)
             IN  (a.ok /\ b.ok) => SameAnswer(a, b)
    /\ provider = "sumup" =>
         \A payload \in SumUpWebhookPayloads :
             WebhookReadOnly(SumUpWebhook(payload))

\* The part of C21 that the code satisfies: no delivery sends a mutating
\* request, and two deliveries whose first read succeeds return the same
\* action and data.
C21_WebhookReadOnly ==
    /\ last.op = "getWebhookActionAndData" => WebhookReadOnly(last)
    /\ provider = "mollie" =>
         \A payload \in MollieWebhookPayloads, n2 \in BOOLEAN,
            m2 \in BOOLEAN :
             LET a == MollieWebhook(payload, TRUE, n2)
                 b == MollieWebhook(payload, TRUE, m2)
             IN  /\ WebhookReadOnly(a)
                 /\ (a.ok /\ b.ok) => SameAnswer(a, b)
    /\ provider = "sumup" =>
         \A payload \in SumUpWebhookPayloads :
             WebhookReadOnly(SumUpWebhook(payload))

\* the requests that create a payment or a checkout at the gateway
CreateRequests ==
    { "payments.create", "checkouts.create", "POST /v0.1/checkouts" }

\* C22 -- as claimed: an initiatePayment call sends at most one create
\* request to the gateway, so after a failed create request it sends no
\* second one.
C22_SingleCreateRequest ==
    last.op = "initiatePayment" => Count(last.sent, CreateRequests) <= 1

\* The Mollie half of C22, which the code satisfies.
C22_MollieSingleCreateRequest ==
    provider = "mollie" => C22_SingleCreateRequest

\* an error message, kept as the sequence of its parts, contains a text
Contains(msg, part) == \E i \in DOMAIN msg : msg[i] = part

\* the message of the gateway error that a failed read of a SumUp checkout
\* meets
UpstreamMessage(id) ==
    IF id \in PaymentIds /\ sumup[id].exists THEN NetworkMessage
    ELSE NotFoundMessage

\* C23 -- as claimed, in every reachable state and for every input: a
\* create request that Mollie rejects makes initiatePayment throw an
\* invalid-data error whose message is the gateway's message; a failed
\* SumUp client call and a failed SumUp initiatePayment throw an error of
\* the one kind payment_authorization_error whose message contains the
\* upstream message.
C23_ErrorsCarryUpstreamMessage ==
    /\ (provider = "mollie" /\ FreeIds(mollie) # {}) =>
         \A input \in InitiateInputs, message \in GatewayMessages :
             LET r == MollieInitiate(input, FALSE, message).result
             IN  ~r.ok /\ r.err = MedusaError("invalid_data", <<message>>)
    /\ provider = "sumup" =>
         \A id \in PaymentIds :
             LET c == GetCheckout(id, "fail")
             IN  /\ ~c.ok
                 /\ c.err.type = "payment_authorization_error"
                 /\ Contains(c.err.msg, UpstreamMessage(id))
    /\ (provider = "sumup" /\ FreeIds(sumup) # {}) =>
         \A input \in InitiateInputs :
             LET r == SumUpInitiate(input, TRUE, "fail").result
             IN  /\ ~r.ok
                 /\ r.err.type = "payment_authorization_error"
                 /\ Contains(r.err.msg, NetworkMessage)

\* The part of C23 that the code satisfies: Mollie's message is verbatim,
\* and the SumUp failures are wrapped into the one error kind.
C23_ErrorKinds ==
    /\ (provider = "mollie" /\ FreeIds(mollie) # {}) =>
         \A input \in InitiateInputs, message \in GatewayMessages :
             LET r == MollieInitiate(input, FALSE, message).result
             IN  ~r.ok /\ r.err = MedusaError("invalid_data", <<message>>)
    /\ provider = "sumup" =>
         \A id \in PaymentIds :
             LET c == GetCheckout(id, "fail")
             IN  ~c.ok /\ c.err.type = "payment_authorization_error"
    /\ (provider = "sumup" /\ FreeIds(sumup) # {}) =>
         \A input \in InitiateInputs, merchantOk \in BOOLEAN :
             LET r == SumUpInitiate(input, merchantOk, "fail").result
             IN  ~r.ok /\ r.err.type = "payment_authorization_error"

\* a decimal string with exactly two decimal digits
TwoDecimals(v) == Len(v) = 3 /\ v[2] \in 0..9 /\ v[3] \in 0..9

\* the amounts in the requests of a call, as they are transmitted: the
\* value strings of Mollie's requests and the numbers in the JSON bodies
\* of the SumUp client's requests
AmountsSent(r) ==
    { r.sent[i].params.amount.value :
        i \in { j \in DOMAIN r.sent : r.sent[j].kind = "payments.create" } }
    \cup { r.sent[i].params.value :
        i \in { j \in DOMAIN r.sent :
                  r.sent[j].kind = "paymentRefunds.create" } }
    \cup { r.sent[i].body.amount :
        i \in { j \in DOMAIN r.sent :
                  /\ "body" \in DOMAIN r.sent[j]
                  /\ "amount" \in DOMAIN r.sent[j].body } }

\* C24 -- as claimed: every amount that an initiatePayment call or a
\* refundPayment call sends to the gateway has exactly two decimal digits.
C24_AmountsTwoDecimals ==
    last.op \in {"initiatePayment", "refundPayment"} =>
        \A v \in AmountsSent(last) : TwoDecimals(v)

\* The Mollie half of C24, which the code satisfies: the create request
\* carries toFixed(2) of the input amount, the refund request a value with
\* two decimal digits.
C24_MollieAmountsTwoDecimals ==
    provider = "mollie" =>
        /\ C24_AmountsTwoDecimals
        /\ (last.op = "initiatePayment" /\ Len(last.sent) = 1) =>
             last.sent[1].params.amount.value = ToFixed2(last.input.amount)

\* C25 -- as claimed: the status that an authorizePayment call returns is
\* the status that the adapter's status mapper (the one getPaymentStatus
\* applies) gives for the gateway status the call read last.
C25_AuthorizeStatusFromMapper ==
    ( last.op \in AuthorizeOps /\ last.ok /\ Len(last.seen) >= 1 ) =>
        last.status = Mapped(last.seen[Len(last.seen)])

\* The part of C25 that the code satisfies: in every reachable state
\* authorizePayment of the Mollie service and of SumUpBase returns, for
\* every id and the same gateway answer, the status that getPaymentStatus
\* returns.
C25_ProviderAuthorizeAgreesWithStatus ==
    /\ provider = "mollie" =>
         \A id \in PaymentIds, net \in BOOLEAN :
             MollieAuthorize(id, net).ok =>
                 MollieAuthorize(id, net).status
                     = MollieStatusOf(id, net).status
    /\ provider = "sumup" =>
         \A id \in PaymentIds, path \in ClientPaths :
             SumUpAuthorize(id, path).ok =>
                 SumUpAuthorize(id, path).status
                     = SumUpGetPaymentStatus(id, path).status

\* C26 -- as claimed: every result of Mollie's getWebhookActionAndData
\* that carries a record fetched from the gateway, by the read of the try
\* block or by the read of the catch block, has the action the transition
\* table gives for the status of that record.
C26_WebhookActionFollowsRecord ==
    ( /\ provider = "mollie"
      /\ last.op = "getWebhookActionAndData"
      /\ last.ok /\ Len(last.seen) = 1 ) =>
        /\ last.data.status = last.seen[1]
        /\ last.action = TransitionTable(last.data.status)

\* C26, its last clause alone -- as claimed: a record whose status is paid
\* or authorized is never returned with action failed.
C26_PaidNeverFailed ==
    ( /\ provider = "mollie"
      /\ last.op = "getWebhookActionAndData"
      /\ last.ok /\ last.seen \in { <<"paid">>, <<"authorized">> } ) =>
        last.action # "failed"

\* C27 -- as claimed: in every interleaving of two capturePayment calls
\* for one authorized payment, with autoCapture disabled and a gateway
\* that accepts one capture request and rejects any later one, the
\* payment is captured once and neither call fails: every call that has
\* ended returned the captured payment's data.
C27_ConcurrentCaptureNeitherFails ==
    /\ captures[FirstId] <= 1
    /\ \A c \in Callers :
         calls[c].pc = "done" =>
             /\ calls[c].result.ok
             /\ calls[c].result.data.status = "paid"

\* C27, its last clause alone -- as claimed: a call whose capture request
\* the gateway rejects, because it accepted the other call's, does not
\* fail with that rejection.
C27_SecondCaptureNotRejected ==
    \A c \in Callers :
        calls[c].pc = "done" => ~GatewayFailure(calls[c].result)

\* The part of C27 that the code satisfies: the payment is captured at
\* most once, at most one capture request is accepted, and a call that
\* returns, returns the data of the paid payment.
C27_CapturedAtMostOnce ==
    /\ captures[FirstId] <= 1
    /\ \A c \in Callers :
         (calls[c].pc = "done" /\ calls[c].result.ok) =>
             /\ captures[FirstId] = 1
             /\ calls[c].result.data.status = "paid"

\* the amount and the session id that Mollie's reconciler computes from
\* the record a webhook result r was built from: new BigNumber(amount),
\* and the key read from the metadata (by the try block after one read,
\* by the catch block after two)
ComputedAmount(r) == BigNumberOfRaw(mollie[r.id].amount)
ComputedSessionId(r) ==
    Field(mollie[r.id].metadata,
          IF Len(r.sent) = 1 THEN "idempotency_key" ELSE "session_id")

\* C28 -- as claimed: in every result of Mollie's getWebhookActionAndData
\* data.amount is the normalized amount the reconciler computed and
\* data.session_id is the key it computed; the fields of the gateway
\* record do not overwrite them.
C28_ComputedFieldsSurvive ==
    ( /\ provider = "mollie"
      /\ last.op = "getWebhookActionAndData" /\ last.ok ) =>
        /\ last.data.amount = ComputedAmount(last)
        /\ last.data.session_id = ComputedSessionId(last)

\* The part of C28 that the code satisfies: the session id is the computed
\* one (the gateway record has no session_id field).
C28_SessionIdSurvives ==
    ( /\ provider = "mollie"
      /\ last.op = "getWebhookActionAndData" /\ last.ok ) =>
        last.data.session_id = ComputedSessionId(last)

\* the gateway reports checkout id as PAID with a SUCCESSFUL transaction
PaidCheckout(id) ==
    /\ sumup[id].exists /\ sumup[id].status = "PAID"
    /\ FindSuccessful(sumup[id].transactions) # 0

\* data, returned for checkout id by authorizePayment or getPaymentStatus,
\* carries the checkout's transactions, and refundPayment called with it
\* sends one refund request, for the first SUCCESSFUL transaction
RefundableWith(id, data) ==
    /\ "transactions" \in DOMAIN data
    /\ data.transactions = sumup[id].transactions
    /\ \A amount \in RefundAmounts :
         LET r == SumUpRefund(id, TRUE, data.transactions, amount, TRUE)
             tx == sumup[id].transactions
         IN  /\ r.ok
             /\ Count(r.sent, RefundRequests) = 1
             /\ Len(r.sent) = 1
             /\ r.sent[1].transaction = tx[FindSuccessful(tx)].id

\* C29 -- as claimed: in every reachable state, for every checkout that
\* the gateway reports as PAID with a SUCCESSFUL transaction and every
\* way the client reaches the gateway, the data that authorizePayment and
\* getPaymentStatus return carries the transaction and makes refundPayment
\* send exactly one refund request, for the first SUCCESSFUL transaction.
C29_RefundAfterPayment ==
    provider = "sumup" =>
        \A id \in PaymentIds, path \in ClientPaths \ {"fail"} :
            PaidCheckout(id) =>
                /\ RefundableWith(id, SumUpAuthorize(id, path).data)
                /\ RefundableWith(id, SumUpGetPaymentStatus(id, path).data)

\* The part of C29 that the code satisfies: the same, when the checkout
\* was read by the client's fetch fallback.
C29_RefundAfterFetchedPayment ==
    provider = "sumup" =>
        \A id \in PaymentIds :
            PaidCheckout(id) =>
                /\ RefundableWith(id, SumUpAuthorize(id, "fetch").data)
                /\ RefundableWith(id,
                                  SumUpGetPaymentStatus(id, "fetch").data)

\* the event types of each action, as the claim lists them
SuccessfulEvents ==
    { "transaction_successful", "payment_captured", "checkout_paid" }
FailedEvents == { "transaction_failed", "payment_failed", "checkout_failed" }
CanceledEvents ==
    { "transaction_cancelled", "payment_cancelled", "checkout_cancelled",
      "checkout_expired" }

EventTable(event_type) ==
    IF event_type \in SuccessfulEvents THEN "captured"
    ELSE IF event_type \in FailedEvents THEN "failed"
    ELSE IF event_type \in CanceledEvents THEN "canceled"
    ELSE "not_supported"

\* C30 -- in every reachable state and for every payload, SumUp's
\* getWebhookActionAndData does not throw; for a payload it can read the
\* action is the one the event table gives for the event type, and for a
\* payload it cannot read (no resource) the action is failed, the session
\* id is empty and the amount is 0.  The result of every delivery made
\* obeys the same table.
C30_SumUpEventMapping ==
    provider = "sumup" =>
        /\ \A payload \in SumUpWebhookPayloads :
             LET r == SumUpWebhook(payload)
             IN  /\ r.ok
                 /\ IF payload.resource = NoResource
                    THEN /\ r.action = "failed"
                         /\ r.data = [ session_id |-> "",
                                       amount |-> BigNumber(0) ]
                    ELSE r.action = EventTable(payload.event_type)
        /\ ( last.op = "getWebhookActionAndData"
             /\ last.input.resource # NoResource ) =>
               /\ last.ok
               /\ last.action = EventTable(last.input.event_type)

C30_Witness ==
    /\ provider = "sumup"
    /\ last.op = "getWebhookActionAndData"
    /\ last.input.event_type = "checkout_expired"
    /\ last.action = "canceled"

C30_WitnessUnreadable ==
    /\ provider = "sumup"
    /\ last.op = "getWebhookActionAndData"
    /\ last.input.resource = NoResource
    /\ last.ok /\ last.action = "failed"
    /\ last.data.session_id = "" /\ last.data.amount = BigNumber(0)

C30_WitnessNotSupported ==
    /\ provider = "sumup"
    /\ last.op = "getWebhookActionAndData"
    /\ last.input.event_type \notin
         SuccessfulEvents \cup FailedEvents \cup CanceledEvents
    /\ last.action = "not_supported"
====
